---- MODULE Spec2Model ----
(***************************************************************************)
(* Model of the intelligence-analysis dashboard:                           *)
(*   src/data-processor.js  the pipeline that turns the parsed reports     *)
(*                          into the entity catalog, the co-occurrence     *)
(*                          graph and the location / timeline aggregates;  *)
(*   src/dashboard.js       the cross-filter selection state               *)
(*                          (currentFilters) and the handlers that mutate  *)
(*                          it and redraw the report list.                 *)
(*                                                                         *)
(* JavaScript values are represented as follows.                           *)
(*   string             a TLA+ string; in the parser, where the text is    *)
(*                      taken apart, the sequence of its characters        *)
(*   null (a filter)    the string null, which is no entity or location    *)
(*   Date / null date   a record [kind, t]: t is the local calendar day    *)
(*                      the instant falls on, day 0 being 1/1/1970         *)
(*   array              a sequence                                         *)
(*   Set / Map          a duplicate-free sequence in insertion order       *)
(*   object reference   a report is referred to by its index in allReports *)
(***************************************************************************)
EXTENDS Integers, Sequences, FiniteSets, TLC

VARIABLES
    rawText,          \* the text of dataset.txt, as the sequence of its characters
    dataset,          \* the reports parseRawData yields for the text of dataset.txt
    response,         \* outcome of fetch('dataset.txt'): pending, ok, notok, rejected
    pc,               \* position of initializeDashboard / of the graph construction
    allReports,       \* dashboard.js:9
    allEntities,      \* dashboard.js:10
    vizData,          \* dashboard.js:11
    currentFilters,   \* dashboard.js:12
    reportList,       \* the cards of #report-list, as indices into allReports
    networkLoadingEl, \* #network-loading: its text, or hidden
    nodeOpacity,      \* inline opacity of each .node-group, in node order
    linkOpacity,      \* inline opacity of each .link, in link order
    barOpacity,       \* inline opacity of each .location-bar, in bar order
    brushSelection,   \* the selection held by #timeline-brush, in pixels
    lastError,        \* the error the last handler run ended with, or none
    lastEvent,        \* the last selection event processed and the filters before it
    pipelineRuns      \* how many times the processing pipeline has run

vars == <<rawText, dataset, response, pc, allReports, allEntities, vizData, currentFilters,
          reportList, networkLoadingEl, nodeOpacity, linkOpacity, barOpacity,
          brushSelection, lastError, lastEvent, pipelineRuns>>

----------------------------------------------------------------------------
(* Bounds of the model. *)

\* reports in a data set of the dashboard specification
MaxReports == 2
\* reports in a data set of the graph specification
MaxGraphReports == 2
\* person and organization mentions in a whole data set of the graph specification
MaxMentions == 4
\* days in a month of the model calendar
DaysPerMonth == 2
\* pixel positions 0..BrushWidth of the timeline brush extent
BrushWidth == 2
\* lines in a text of the parser specification
MaxLines == 4
\* '/'-separated segments in a place of the aggregation specification
MaxSegments == 4
\* reports in a data set of the aggregation specification
MaxAggReports == 2

----------------------------------------------------------------------------
(* Generic sequence helpers (Array.prototype methods). *)

Range(s) == {s[i] : i \in DOMAIN s}

\* Array.prototype.includes
Includes(s, x) == \E i \in DOMAIN s : s[i] = x

\* sequences over S of length at most n
SeqsUpTo(S, n) == UNION {[1..k -> S] : k \in 0..n}

RECURSIVE Flatten(_)
\* concatenation of a sequence of sequences
Flatten(ss) == IF ss = <<>> THEN <<>> ELSE Head(ss) \o Flatten(Tail(ss))

RECURSIVE Dedup(_, _)
\* insertion into a Set: the first occurrence of each value, in order
Dedup(s, acc) ==
    IF s = <<>> THEN acc
    ELSE Dedup(Tail(s), IF Includes(acc, Head(s)) THEN acc ELSE Append(acc, Head(s)))

\* how many elements of s equal x
CountOf(s, x) == Cardinality({i \in DOMAIN s : s[i] = x})

\* Math.min
Min(a, b) == IF a <= b THEN a ELSE b

----------------------------------------------------------------------------
(* JavaScript values. *)

\* null held by currentFilters.entity / currentFilters.location
null == "<null>"

NullDate == [kind |-> "null", t |-> 0]
DateOf(t) == [kind |-> "date", t |-> t]
InvalidDate == [kind |-> "invalid", t |-> 0]

\* ToNumber as applied by the relational operators: null is +0, a Date its time
\* value, an invalid Date NaN
ToNumber(v) ==
    CASE v.kind = "null" -> [nan |-> FALSE, n |-> 0]
      [] v.kind = "date" -> [nan |-> FALSE, n |-> v.t]
      [] OTHER -> [nan |-> TRUE, n |-> 0]

\* x >= y and x <= y of JavaScript: false as soon as one side is NaN
JsGe(x, y) == ~ToNumber(x).nan /\ ~ToNumber(y).nan /\ ToNumber(x).n >= ToNumber(y).n
JsLe(x, y) == ~ToNumber(x).nan /\ ~ToNumber(y).nan /\ ToNumber(x).n <= ToNumber(y).n

\* the property names an object literal inherits from Object.prototype
ObjectPrototype ==
    {"constructor", "toString", "toLocaleString", "valueOf", "hasOwnProperty",
     "isPrototypeOf", "propertyIsEnumerable", "__proto__", "__defineGetter__",
     "__defineSetter__", "__lookupGetter__", "__lookupSetter__"}

\* the value inherited under such a name: a function (for __proto__ an object),
\* never a string. It is represented by a string that is no name of a text.
Inherited(name) == "[Object.prototype." \o name \o "]"

\* UTF-16 code units of the strings the model uses, as sort compares them (a
\* function is compared by its source text)
CodeUnits(s) ==
    CASE s = "d" -> <<100>>
      [] s = "c|d" -> <<99, 124, 100>>
      [] s = "Boris" -> <<66, 111, 114, 105, 115>>
      [] s = "Boris Bugarov" -> <<66, 111, 114, 105, 115, 32, 66, 117, 103, 97, 114, 111, 118>>
      [] s = "Boris Bugarov|c" ->
            <<66, 111, 114, 105, 115, 32, 66, 117, 103, 97, 114, 111, 118, 124, 99>>
      [] s = "OrgX" -> <<79, 114, 103, 88>>
      [] s = "OrgY" -> <<79, 114, 103, 89>>
      [] s = "Alice" -> <<65, 108, 105, 99, 101>>
      [] s = "constructor" -> <<99, 111, 110, 115, 116, 114, 117, 99, 116, 111, 114>>
      [] s = Inherited("constructor") ->
            <<102, 117, 110, 99, 116, 105, 111, 110, 32, 79, 98, 106, 101, 99, 116, 40, 41,
            32, 123, 32, 91, 110, 97, 116, 105, 118, 101, 32, 99, 111, 100, 101, 93, 32,
            125>>

RECURSIVE SeqLess(_, _)
\* lexicographic order on code-unit sequences
SeqLess(u, v) ==
    IF v = <<>> THEN FALSE
    ELSE IF u = <<>> THEN TRUE
    ELSE IF Head(u) # Head(v) THEN Head(u) < Head(v)
    ELSE SeqLess(Tail(u), Tail(v))

\* the default comparison of Array.prototype.sort on strings
StrLess(a, b) == SeqLess(CodeUnits(a), CodeUnits(b))

----------------------------------------------------------------------------
(* String operations of the parser. Here a string is the sequence of its   *)
(* characters, each a string of length one.                                *)

UpperCase == <<"A", "B", "C", "D", "E", "F", "G", "H", "I", "J", "K", "L", "M",
               "N", "O", "P", "Q", "R", "S", "T", "U", "V", "W", "X", "Y", "Z">>
LowerCase == <<"a", "b", "c", "d", "e", "f", "g", "h", "i", "j", "k", "l", "m",
               "n", "o", "p", "q", "r", "s", "t", "u", "v", "w", "x", "y", "z">>
Digits == <<"0", "1", "2", "3", "4", "5", "6", "7", "8", "9">>

\* [A-Z]
IsUpper(c) == \E k \in DOMAIN UpperCase : UpperCase[k] = c
\* \d
IsDigit(c) == \E k \in DOMAIN Digits : Digits[k] = c
\* \s, and the characters String.prototype.trim strips
IsWhiteSpace(c) == c \in {" ", "\t", "\n", "\r"}
\* the characters . does not match
IsLineTerminator(c) == c \in {"\n", "\r"}
IsNotLineTerminator(c) == ~IsLineTerminator(c)

\* the character at position i, or the empty string outside the string
CharAt(s, i) == IF i \in DOMAIN s THEN s[i] ELSE ""

\* the character classes of the parser's regular expressions:
\* [A-Z], \d, \s and . (any character but a line terminator)
InClass(c, class) ==
    CASE class = "A-Z" -> IsUpper(c)
      [] class = "d"   -> IsDigit(c)
      [] class = "s"   -> IsWhiteSpace(c)
      [] class = "."   -> IsNotLineTerminator(c)

\* the length of the longest run of characters of a class that starts at i:
\* what a greedy class* matches there
RunFrom(s, i, class) ==
    CHOOSE n \in 0..Len(s) :
        /\ \A k \in i..(i + n - 1) : k \in DOMAIN s /\ InClass(s[k], class)
        /\ ~(i + n \in DOMAIN s /\ InClass(s[i + n], class))

\* String.prototype.toLowerCase
toLowerCase(s) ==
    [i \in DOMAIN s |->
        IF IsUpper(s[i]) THEN LowerCase[CHOOSE k \in DOMAIN UpperCase : UpperCase[k] = s[i]]
        ELSE s[i]]

\* String.prototype.indexOf, 1-based; 0 when sep does not occur
indexOf(s, sep) ==
    LET hits == {i \in 1..(Len(s) - Len(sep) + 1) : SubSeq(s, i, i + Len(sep) - 1) = sep}
    IN  IF hits = {} THEN 0 ELSE CHOOSE i \in hits : \A j \in hits : i <= j

RECURSIVE split(_, _)
\* String.prototype.split on a non-empty separator
split(s, sep) ==
    LET i == indexOf(s, sep)
    IN  IF i = 0 THEN <<s>>
        ELSE <<SubSeq(s, 1, i - 1)>> \o split(SubSeq(s, i + Len(sep), Len(s)), sep)

\* String.prototype.trim
trim(s) ==
    LET keep == {i \in DOMAIN s : ~IsWhiteSpace(s[i])}
    IN  IF keep = {} THEN <<>>
        ELSE SubSeq(s, CHOOSE i \in keep : \A j \in keep : i <= j,
                       CHOOSE i \in keep : \A j \in keep : i >= j)

RECURSIVE join(_, _)
\* Array.prototype.join
join(parts, sep) ==
    IF parts = <<>> THEN <<>>
    ELSE IF Len(parts) = 1 THEN parts[1]
    ELSE parts[1] \o sep \o join(Tail(parts), sep)

\* .filter(Boolean) on an array of strings: the empty string is dropped
filterBoolean(parts) == SelectSeq(parts, LAMBDA x : x # <<>>)

RECURSIVE parseInt(_, _)
\* the number a run of digits denotes
parseInt(s, acc) ==
    IF s = <<>> THEN acc
    ELSE parseInt(Tail(s), 10 * acc + ((CHOOSE k \in DOMAIN Digits : Digits[k] = Head(s)) - 1))

----------------------------------------------------------------------------
(* data-processor.js *)

\* the block separator, 'REPORT' of 'REPORT\n'
Keyword == <<"R", "E", "P", "O", "R", "T">>
LF == "\n"
CR == "\r"

\* line.match(/^([A-Z]+):\s*(.*)/): <<match[1], match[2]>>, or <<>> for null
matchHeader(line) ==
    LET n == RunFrom(line, 1, "A-Z")
    IN  IF n = 0 \/ CharAt(line, n + 1) # ":" THEN <<>>
        ELSE LET w == RunFrom(line, n + 2, "s")
                 r == RunFrom(line, n + 2 + w, ".")
             IN  <<SubSeq(line, 1, n), SubSeq(line, n + 2 + w, n + 1 + w + r)>>

\* report[currentField.toLowerCase()] = content.join(' ').trim(); a report under
\* construction is the sequence of the <<name, value>> assignments made so far
saveField(report, currentField, content) ==
    Append(report, <<toLowerCase(currentField), trim(join(content, <<" ">>))>>)

RECURSIVE parseLines(_, _, _, _)
\* the loop over the lines of one block and the save after it; currentField is
\* <<>> for null
parseLines(lines, report, currentField, content) ==
    IF lines = <<>>
    THEN IF currentField # <<>> THEN saveField(report, currentField, content) ELSE report
    ELSE LET m == matchHeader(Head(lines))
         IN  IF m # <<>>
             THEN parseLines(Tail(lines),
                             IF currentField # <<>>
                             THEN saveField(report, currentField, content) ELSE report,
                             m[1], <<m[2]>>)
             ELSE IF currentField # <<>>
             THEN parseLines(Tail(lines), report, currentField, Append(content, Head(lines)))
             ELSE parseLines(Tail(lines), report, currentField, content)

\* report[name]: the value assigned last. A field never assigned reads as
\* undefined; every use tests it for truthiness, where undefined and the empty
\* string agree, so it is given as the empty string.
field(report, name) ==
    LET hits == {k \in DOMAIN report : report[k][1] = name}
    IN  IF hits = {} THEN <<>>
        ELSE report[CHOOSE k \in hits : \A j \in hits : k >= j][2]

\* dateString.replace(/(\d+)\/\s+\/(\d{4})/, '$1/1/$2')
replaceBlankDay(s) ==
    LET d(i) == RunFrom(s, i, "d")
        w(i) == RunFrom(s, i + d(i) + 1, "s")
        y(i) == i + d(i) + w(i) + 2
        matchAt(i) == /\ d(i) >= 1
                      /\ CharAt(s, i + d(i)) = "/"
                      /\ w(i) >= 1
                      /\ CharAt(s, y(i) - 1) = "/"
                      /\ \A k \in y(i)..(y(i) + 3) : IsDigit(CharAt(s, k))
        hits == {i \in DOMAIN s : matchAt(i)}
    IN  IF hits = {} THEN s
        ELSE LET i == CHOOSE h \in hits : \A j \in hits : h <= j
             IN  SubSeq(s, 1, i + d(i) - 1) \o <<"/", "1", "/">> \o SubSeq(s, y(i), Len(s))

\* dateString.replace(/\s+\/\s+\/(\d{4})/, '1/1/$1')
replaceBlankMonthDay(s) ==
    LET m(i) == RunFrom(s, i, "s")
        w(i) == RunFrom(s, i + m(i) + 1, "s")
        y(i) == i + m(i) + w(i) + 2
        matchAt(i) == /\ m(i) >= 1
                      /\ CharAt(s, i + m(i)) = "/"
                      /\ w(i) >= 1
                      /\ CharAt(s, y(i) - 1) = "/"
                      /\ \A k \in y(i)..(y(i) + 3) : IsDigit(CharAt(s, k))
        hits == {i \in DOMAIN s : matchAt(i)}
    IN  IF hits = {} THEN s
        ELSE LET i == CHOOSE h \in hits : \A j \in hits : h <= j
             IN  SubSeq(s, 1, i - 1) \o <<"1", "/", "1", "/">> \o SubSeq(s, y(i), Len(s))

\* the day number of a calendar date of the model calendar (twelve months of
\* DaysPerMonth days, day 0 = 1/1/1970); a day past the end of its month falls
\* into the following month
DayNumber(year, month, day) ==
    ((year - 1970) * 12 + (month - 1)) * DaysPerMonth + (day - 1)

\* the Date parsers a browser may have. Date.parse is specified for the ISO
\* forms only, and every engine reads month/day/year; for any other string the
\* result is left to the implementation: a lenient parser skips the separators
\* and defaults a missing month and day to 1, a strict one returns NaN.
DateEngines == {"lenient", "strict"}

\* new Date(dateString) for the date strings of the model: M/D/YYYY, YYYY, and
\* strings that are neither
newDate(dateString, engine) ==
    LET parts == split(dateString, <<"/">>)
        isNumber(x) == x # <<>> /\ \A k \in DOMAIN x : IsDigit(x[k])
        groups == filterBoolean([k \in DOMAIN parts |-> trim(parts[k])])
    IN  IF Len(parts) = 3 /\ \A k \in 1..3 : isNumber(parts[k])
        THEN IF /\ Len(parts[3]) = 4
                /\ parseInt(parts[1], 0) \in 1..12
                /\ parseInt(parts[2], 0) \in 1..31
             THEN DateOf(DayNumber(parseInt(parts[3], 0), parseInt(parts[1], 0),
                                   parseInt(parts[2], 0)))
             ELSE InvalidDate
        ELSE IF isNumber(dateString) /\ Len(dateString) = 4
        THEN DateOf(DayNumber(parseInt(dateString, 0), 1, 1))
        ELSE IF /\ engine = "lenient"
                /\ Len(groups) = 1 /\ isNumber(groups[1]) /\ Len(groups[1]) = 4
        THEN DateOf(DayNumber(parseInt(groups[1], 0), 1, 1))
        ELSE InvalidDate

\* value.split(';').map(s => s.trim()).filter(Boolean), or [] for no value
splitList(value) ==
    IF value # <<>>
    THEN LET parts == split(value, <<";">>)
         IN  filterBoolean([k \in DOMAIN parts |-> trim(parts[k])])
    ELSE <<>>

\* the body of the loop over reportBlocks: the report of one block; it is
\* pushed when its id is not empty
parseBlock(block, engine) ==
    LET report == parseLines(split(block, <<LF>>), <<>>, <<>>, <<>>)
        reportdate == field(report, <<"r", "e", "p", "o", "r", "t", "d", "a", "t", "e">>)
        dateString == IF reportdate # <<>>
                      THEN replaceBlankMonthDay(replaceBlankDay(reportdate))
                      ELSE reportdate
        d == newDate(dateString, engine)
    IN  [id |-> field(report, <<"i", "d">>),
         reportdate |-> reportdate,
         date |-> IF dateString # <<>> /\ d.kind = "date" THEN d ELSE NullDate,
         persons |-> splitList(field(report, <<"p", "e", "r", "s", "o", "n", "s">>)),
         places |-> splitList(field(report, <<"p", "l", "a", "c", "e", "s">>)),
         organizations |->
            splitList(field(report, <<"o", "r", "g", "a", "n", "i", "z", "a", "t", "i", "o",
                                      "n", "s">>))]

\* parseRawData
parseRawData(text, engine) ==
    LET reportBlocks == filterBoolean(split(text, Keyword \o <<LF>>))
        reports == [b \in DOMAIN reportBlocks |-> parseBlock(reportBlocks[b], engine)]
    IN  SelectSeq(reports, LAMBDA report : report.id # <<>>)

ALIAS_MAP ==
    ( "Abu Hafs" :> "Abdillah Zinedine"
   @@ "Mehdi Rafiki" :> "Abdillah Zinedine"
   @@ "Fr. Augustin Dominique" :> "Abdal al Hawsawi"
   @@ "Omar Blakely" :> "Rifai Qasim"
   @@ "Ronald" :> "Satam Derwish"
   @@ "R. Derwish" :> "Satam Derwish"
   @@ "Ronald Derwish" :> "Satam Derwish"
   @@ "Ralph Bean" :> "Raeed Beandali"
   @@ "Reginald Cooper" :> "Mahmud al-Dahab"
   @@ "Boris" :> "Boris Bugarov"
   @@ "Pyotr" :> "Pyotr Sofrygin"
   @@ "Sofrygin" :> "Pyotr Sofrygin"
   @@ "A. Somad" :> "Abu Somad"
   @@ "Y. Bafaba" :> "Yazid Bafaba"
   @@ "Hafs or Halfs" :> "Abdillah Zinedine"
   @@ "al Quso" :> "Jamal al Quso"
   @@ "Dr. Badawi" :> "Fahd al Badawi"
   @@ "Yasir Salman" :> "Saeed Hasham"
   @@ "Hamid Qatada" :> "Saeed Hasham" )

\* person => person, the lookup without the alias table
ResolveIdentity(person) == person

\* ALIAS_MAP[person] || person. The property lookup follows the prototype
\* chain of the object literal, so a name of Object.prototype finds the
\* inherited value, which is truthy.
Resolve(person) ==
    IF person \in DOMAIN ALIAS_MAP THEN ALIAS_MAP[person]
    ELSE IF person \in ObjectPrototype THEN Inherited(person)
    ELSE person

\* resolveEntities: adds persons_resolved to every report
resolveEntities(reports) ==
    [i \in DOMAIN reports |->
        [id |-> reports[i].id,
         date |-> reports[i].date,
         persons |-> reports[i].persons,
         places |-> reports[i].places,
         organizations |-> reports[i].organizations,
         persons_resolved |->
            [k \in DOMAIN reports[i].persons |-> Resolve(reports[i].persons[k])]]]

\* String.prototype.trim on one segment of a place
Trim(s) ==
    IF s \in {"", " ", "  "} THEN ""
    ELSE IF s = " District1 " THEN "District1"
    ELSE s

\* the last segment that survives, whatever the depth of the hierarchy
cleanPlaceLast(place) ==
    LET parts == SelectSeq([k \in DOMAIN place |-> Trim(place[k])], LAMBDA s : s # "")
    IN  IF Len(parts) = 0 THEN "Unknown" ELSE parts[Len(parts)]

\* the first segment that survives, whatever the depth of the hierarchy
cleanPlaceFirst(place) ==
    LET parts == SelectSeq([k \in DOMAIN place |-> Trim(place[k])], LAMBDA s : s # "")
    IN  IF Len(parts) = 0 THEN "Unknown" ELSE parts[1]

\* the callback of report.places.map: a place is given as the sequence of its
\* segments between '/'
cleanPlace(place) ==
    LET parts == SelectSeq([k \in DOMAIN place |-> Trim(place[k])], LAMBDA s : s # "")
    IN  IF Len(parts) = 0 THEN "Unknown"
        ELSE IF Len(parts) > 2 THEN parts[Len(parts) - 2]
        ELSE IF Len(parts) = 2 THEN parts[1]
        ELSE parts[1]

\* cleanPlaceData: adds places_clean to every report
cleanPlaceData(reports) ==
    [i \in DOMAIN reports |->
        [id |-> reports[i].id,
         date |-> reports[i].date,
         persons |-> reports[i].persons,
         places |-> reports[i].places,
         organizations |-> reports[i].organizations,
         persons_resolved |-> reports[i].persons_resolved,
         places_clean |->
            SelectSeq([k \in DOMAIN reports[i].places |-> cleanPlace(reports[i].places[k])],
                      LAMBDA s : s # "")]]

\* getAllEntities
getAllEntities(reports) ==
    [persons |-> Dedup(Flatten([i \in DOMAIN reports |-> reports[i].persons_resolved]), <<>>),
     organizations |-> Dedup(Flatten([i \in DOMAIN reports |-> reports[i].organizations]), <<>>)]

\* [source, target].join('|') without the sort
LinkKeyUnsorted(source, target) == source \o "|" \o target

\* [source, target].sort().join('|')
LinkKey(source, target) ==
    IF StrLess(target, source) THEN target \o "|" \o source
    ELSE source \o "|" \o target

\* the (source, target, reportId) triples the nested i < j loops of one report
\* visit, in visiting order
ReportPairs(report) ==
    LET entitiesInReport == report.persons_resolved \o report.organizations
        n == Len(entitiesInReport)
        row(i) == [j \in 1..(n - i) |->
                     [source |-> entitiesInReport[i],
                      target |-> entitiesInReport[i + j],
                      reportId |-> report.id]]
    IN  Flatten([i \in 1..n |-> row(i)])

RECURSIVE AddLinks(_, _, _)
\* the body of the inner loop, run over the visited pairs in order
AddLinks(pairs, links, linkSet) ==
    IF pairs = <<>> THEN links
    ELSE LET p == Head(pairs)
             key == LinkKey(p.source, p.target)
         IN  IF key \notin linkSet /\ p.source # p.target
             THEN AddLinks(Tail(pairs), Append(links, p), linkSet \cup {key})
             ELSE AddLinks(Tail(pairs), links, linkSet)

\* generateNetworkData
generateNetworkData(reports, entities) ==
    [nodes |->
        [k \in DOMAIN entities.persons |-> [id |-> entities.persons[k], type |-> "person"]]
        \o [k \in DOMAIN entities.organizations |->
              [id |-> entities.organizations[k], type |-> "organization"]],
     links |-> AddLinks(Flatten([i \in DOMAIN reports |-> ReportPairs(reports[i])]), <<>>, {})]

RECURSIVE InsertByCountBefore(_, _)
\* place e before the first element whose count is not larger: a descending
\* sort that reverses the elements of equal count
InsertByCountBefore(sorted, e) ==
    IF sorted = <<>> THEN <<e>>
    ELSE IF Head(sorted).count > e.count
    THEN <<Head(sorted)>> \o InsertByCountBefore(Tail(sorted), e)
    ELSE <<e>> \o sorted

RECURSIVE InsertByCount(_, _)
\* place e after every element whose count is not smaller (a stable descending sort)
InsertByCount(sorted, e) ==
    IF sorted = <<>> THEN <<e>>
    ELSE IF Head(sorted).count >= e.count THEN <<Head(sorted)>> \o InsertByCount(Tail(sorted), e)
    ELSE <<e>> \o sorted

RECURSIVE SortByCountDesc(_, _)
\* .sort((a, b) => b.count - a.count), which is stable
SortByCountDesc(s, acc) ==
    IF s = <<>> THEN acc ELSE SortByCountDesc(Tail(s), InsertByCount(acc, Head(s)))

\* generateLocationData
generateLocationData(reports) ==
    LET occurrences == SelectSeq(Flatten([i \in DOMAIN reports |-> reports[i].places_clean]),
                                 LAMBDA l : l # "Unknown")
        keys == Dedup(occurrences, <<>>)
        counts == [k \in DOMAIN keys |->
                     [location |-> keys[k], count |-> CountOf(occurrences, keys[k])]]
    IN  SortByCountDesc(counts, <<>>)

\* where the browser runs: west of Greenwich, on it, or east of it. The
\* date-only forms with slashes are read as local time, toISOString and the
\* form YYYY-MM-DD are UTC.
TimeZones == {"west", "UTC", "east"}

\* the UTC calendar day of the local midnight that begins local day t: east of
\* Greenwich that instant still belongs to the day before
UtcDay(t, zone) == IF zone = "east" THEN t - 1 ELSE t

\* the local calendar day on which the UTC midnight that begins UTC day u
\* falls: west of Greenwich it is still the evening before
LocalDay(u, zone) == IF zone = "west" THEN u - 1 ELSE u

\* report.date.toISOString().slice(0, 7): the UTC month a date falls in
MonthKey(date, zone) == UtcDay(date.t, zone) \div DaysPerMonth

\* new Date(dateStr + '-01'): the UTC midnight that begins a month
MonthStart(m, zone) == DateOf(LocalDay(m * DaysPerMonth, zone))

RECURSIVE InsertByDate(_, _)
\* place e after every element whose date is not later (a stable ascending sort)
InsertByDate(sorted, e) ==
    IF sorted = <<>> THEN <<e>>
    ELSE IF Head(sorted).date.t <= e.date.t THEN <<Head(sorted)>> \o InsertByDate(Tail(sorted), e)
    ELSE <<e>> \o sorted

RECURSIVE SortByDateAsc(_, _)
\* .sort((a, b) => a.date - b.date)
SortByDateAsc(s, acc) ==
    IF s = <<>> THEN acc ELSE SortByDateAsc(Tail(s), InsertByDate(acc, Head(s)))

\* generateTimelineData
generateTimelineData(reports, zone) ==
    LET dated == SelectSeq(reports, LAMBDA r : r.date.kind # "null")
        monthKeys == [i \in DOMAIN dated |-> MonthKey(dated[i].date, zone)]
        keys == Dedup(monthKeys, <<>>)
        counts == [k \in DOMAIN keys |->
                     [date |-> MonthStart(keys[k], zone), count |-> CountOf(monthKeys, keys[k])]]
    IN  SortByDateAsc(counts, <<>>)

\* the stages of getProcessedData after the text has been parsed
ProcessedData(parsed, zone) ==
    LET reports == cleanPlaceData(resolveEntities(parsed))
        entities == getAllEntities(reports)
    IN  [allReports |-> reports,
         allEntities |-> entities,
         vizData |-> [network |-> generateNetworkData(reports, entities),
                      locationCounts |-> generateLocationData(reports),
                      timelineData |-> generateTimelineData(reports, zone)]]

----------------------------------------------------------------------------
(* dashboard.js *)

\* vizData.locationCounts.slice(0, 20): at most this many bars are drawn
TopLocations == 20

\* the data bound to the .location-bar elements by drawLocationChart
Bars(viz) == SubSeq(viz.locationCounts, 1, Min(TopLocations, Len(viz.locationCounts)))

\* the first filter of updateDashboard without line 72: the organizations of
\* the reports are not looked at
EntityFilterPersonsOnly(reports, idx, entity) ==
    SelectSeq(idx, LAMBDA i : Includes(reports[i].persons_resolved, entity))

\* the first filter of updateDashboard
EntityFilter(reports, idx, entity) ==
    SelectSeq(idx, LAMBDA i : \/ Includes(reports[i].persons_resolved, entity)
                              \/ Includes(reports[i].organizations, entity))

\* the second filter of updateDashboard
LocationFilter(reports, idx, location) ==
    SelectSeq(idx, LAMBDA i : Includes(reports[i].places_clean, location))

\* the third filter of updateDashboard
TimeFilter(reports, idx, timeRange) ==
    SelectSeq(idx, LAMBDA i : /\ JsGe(reports[i].date, timeRange[1])
                              /\ JsLe(reports[i].date, timeRange[2]))

\* filteredReports at the end of updateDashboard, as indices into reports
filteredReports(filters, reports) ==
    LET all == [i \in 1..Len(reports) |-> i]
        byEntity == IF filters.entity # null
                    THEN EntityFilter(reports, all, filters.entity) ELSE all
        byLocation == IF filters.location # null
                      THEN LocationFilter(reports, byEntity, filters.location) ELSE byEntity
    IN  IF filters.timeRange # <<>>
        THEN TimeFilter(reports, byLocation, filters.timeRange) ELSE byLocation

\* highlightNetwork without line 245: only the targets of the links that start
\* at the entity are taken as neighbors
highlightNetworkSourceOnly(entityId, network) ==
    LET links == network.links
        neighbors == {entityId}
                     \cup {links[l].target : l \in {k \in DOMAIN links : links[k].source = entityId}}
    IN  [nodes |-> [n \in DOMAIN network.nodes |->
                      IF network.nodes[n].id \in neighbors THEN "1" ELSE "0.1"],
         links |-> [l \in DOMAIN links |->
                      IF links[l].source = entityId \/ links[l].target = entityId
                      THEN "1" ELSE "0.1"]]

\* highlightNetwork: the opacities it gives the node groups and the links
highlightNetwork(entityId, network) ==
    LET links == network.links
        neighbors == {entityId}
                     \cup {links[l].target : l \in {k \in DOMAIN links : links[k].source = entityId}}
                     \cup {links[l].source : l \in {k \in DOMAIN links : links[k].target = entityId}}
    IN  [nodes |-> [n \in DOMAIN network.nodes |->
                      IF network.nodes[n].id \in neighbors THEN "1" ELSE "0.1"],
         links |-> [l \in DOMAIN links |->
                      IF links[l].source = entityId \/ links[l].target = entityId
                      THEN "1" ELSE "0.1"]]

\* .style('opacity', v) on every element of a selection
StyleAll(elements, v) == [k \in DOMAIN elements |-> v]

\* the opacities updateDashboard gives the network: the highlight of the entity,
\* or the explicit reset
NetworkOpacity(filters, network) ==
    IF filters.entity # null THEN highlightNetwork(filters.entity, network)
    ELSE [nodes |-> StyleAll(network.nodes, "1"), links |-> StyleAll(network.links, "0.6")]

\* the opacities of the location bars after a handler set them to before and
\* updateDashboard then ran
BarOpacity(filters, bars, before) ==
    IF filters.location # null
    THEN [b \in DOMAIN bars |-> IF bars[b].location = filters.location THEN "1" ELSE "0.3"]
    ELSE before

\* updateDashboard
updateDashboard(filters, barsBefore) ==
    /\ nodeOpacity' = NetworkOpacity(filters, vizData'.network).nodes
    /\ linkOpacity' = NetworkOpacity(filters, vizData'.network).links
    /\ barOpacity' = BarOpacity(filters, Bars(vizData'), barsBefore)
    /\ reportList' = filteredReports(filters, allReports')

\* onNodeClick, lines 216-220
NodeClickFilters(filters, id) ==
    [entity |-> IF filters.entity = id THEN null ELSE id,
     location |-> null,
     timeRange |-> <<>>]

\* the click listener of a mention, lines 457-461
MentionClickFilters(filters, entityId) ==
    [entity |-> entityId, location |-> null, timeRange |-> <<>>]

\* onLocationClick, lines 315-319, with the other filters left as they are
LocationClickFiltersNoReset(filters, location) ==
    [filters EXCEPT !.location = IF filters.location = location THEN null ELSE location]

\* onLocationClick, lines 315-319, without the assignment of line 319
LocationClickFiltersKeepRange(filters, location) ==
    [entity |-> null,
     location |-> IF filters.location = location THEN null ELSE location,
     timeRange |-> filters.timeRange]

\* onLocationClick, lines 315-319
LocationClickFilters(filters, location) ==
    [entity |-> null,
     location |-> IF filters.location = location THEN null ELSE location,
     timeRange |-> <<>>]

\* d3.scaleTime().domain(d3.extent(timelineData, d => d.date)).range(...).invert(x)
\* for a pixel position x in 0..BrushWidth of the brush extent; the extent of no
\* data is [undefined, undefined] and inverts to an invalid Date
Invert(timelineData, x) ==
    IF timelineData = <<>> THEN InvalidDate
    ELSE LET d0 == timelineData[1].date.t
             d1 == timelineData[Len(timelineData)].date.t
         IN  DateOf(d0 + ((d1 - d0) * x) \div BrushWidth)

\* onTimeBrush, lines 392-400, without the resets of lines 403-404
TimeBrushFiltersKeepOthers(filters, selection, timelineData) ==
    [filters EXCEPT !.timeRange =
        IF selection # <<>>
        THEN <<Invert(timelineData, selection[1]), Invert(timelineData, selection[2])>>
        ELSE <<>>]

\* onTimeBrush, lines 392-405; selection is <<>> for a brush without selection
TimeBrushFilters(filters, selection, timelineData) ==
    [entity |-> null,
     location |-> null,
     timeRange |-> IF selection # <<>>
                   THEN <<Invert(timelineData, selection[1]), Invert(timelineData, selection[2])>>
                   ELSE <<>>]

\* the selections a brush gesture can end with: x0 < x1 inside the extent
BrushSelections == {sel \in (0..BrushWidth) \X (0..BrushWidth) : sel[1] < sel[2]}

----------------------------------------------------------------------------
(* The inputs: the reports parseRawData yields (a block without an id yields *)
(* none; persons, places and organizations are split, trimmed and free of    *)
(* empty strings; the date is a valid Date or null).                         *)

ReportIds == <<"A1", "A2", "A3", "A4">>

\* a place is the sequence of its '/'-separated segments
Place1 == <<"CityA">>
Place3 == <<"Region1", "District1", " ", "CityA">>

\* the persons and organizations fields of one report of the dashboard
\* specification: an alias alone, the canonical name beside an organization,
\* an organization alone
DashMentions ==
    {<<<<"Boris">>, <<>>>>, <<<<"Boris Bugarov">>, <<"OrgX">>>>, <<<<>>, <<"OrgX">>>>}

\* the fields of one report of the dashboard specification: no date, a date
\* before the epoch or one after it; a flat or a hierarchical place
DashFields ==
    {[date |-> d, persons |-> m[1], places |-> <<p>>, organizations |-> m[2]] :
        d \in {NullDate, DateOf(-1), DateOf(1)}, m \in DashMentions, p \in {Place1, Place3}}

\* the names of the graph specification: an alias and its canonical name, a
\* name used for a person and for an organization, names that contain '|'
GraphPersons == {"Boris", "Boris Bugarov", "d"}
GraphOrgs == {"c|d", "Boris Bugarov|c", "d"}

\* the <<persons, organizations>> of one report with exactly k mentions
MentionLists(k) ==
    UNION {{<<ps, os>> : ps \in [1..i -> GraphPersons], os \in [1..(k - i) -> GraphOrgs]} :
             i \in 0..k}

RECURSIVE MentionSeqs(_, _)
\* the <<persons, organizations>> of at most n reports with at most m mentions
\* in total
MentionSeqs(n, m) ==
    IF n = 0 THEN {<<>>}
    ELSE {<<>>} \cup
         UNION {{<<e>> \o rest : e \in MentionLists(k), rest \in MentionSeqs(n - 1, m - k)} :
                  k \in 0..m}

\* the fields of the reports of the data sets of the graph specification: at
\* most n reports with at most m mentions in total, no date and no place
GraphFieldSeqs(n, m) ==
    {[i \in DOMAIN es |->
        [date |-> NullDate, persons |-> es[i][1], places |-> <<>>,
         organizations |-> es[i][2]]] : es \in MentionSeqs(n, m)}

\* the segments of the places of the aggregation specification: empty and
\* blank ones, a padded one and plain names
Segments == {"", " ", " District1 ", "Region1", "CityA", "Zone1"}

\* the places of at most n segments (a string splits into at least one)
Places(n) == SeqsUpTo(Segments, n) \ {<<>>}

\* the fields of the one report of a data set that holds a single place
PlaceFieldSeqs(n) ==
    {<<[date |-> NullDate, persons |-> <<>>, places |-> <<p>>, organizations |-> <<>>]>> :
        p \in Places(n)}

\* the places fields of the reports of the aggregation specification: none, a
\* place, the same place twice, two places, a place without a name
AggPlaceLists ==
    {<<>>, <<<<"CityA">>>>, <<<<"CityB">>>>, <<<<"CityA">>, <<"CityA">>>>,
     <<<<"CityB">>, <<"CityA">>>>, <<<<"", "">>, <<"CityA">>>>}

\* the dates of the reports of the aggregation specification: none, two days
\* of one month, a day of the month after and one of the month before
AggDates == {NullDate, DateOf(0), DateOf(1), DateOf(DaysPerMonth), DateOf(-1)}

\* the persons and organizations of the reports of the aggregation
\* specification that mention any: an alias, a name Object.prototype has, an
\* organization named like an alias
AggMentions ==
    {<<<<"Boris">>, <<>>>>, <<<<"constructor">>, <<>>>>,
     <<<<"Boris Bugarov", "Boris">>, <<"Boris">>>>}

\* the fields of one report of the aggregation specification
AggFields ==
    {[date |-> d, persons |-> <<>>, places |-> ps, organizations |-> <<>>] :
        d \in AggDates, ps \in AggPlaceLists}
    \cup {[date |-> NullDate, persons |-> m[1], places |-> <<>>, organizations |-> m[2]] :
            m \in AggMentions}

\* the fields of the reports of the data sets of the aggregation specification
AggFieldSeqs(n, k) == PlaceFieldSeqs(k) \cup SeqsUpTo(AggFields, n)

\* the fields of the two reports of the end-to-end scenario
ScenarioFields ==
    <<[date |-> DateOf(-1), persons |-> <<"Alice">>,
       places |-> <<<<"Region1", "District1", "CityA">>>>, organizations |-> <<"OrgX">>],
      [date |-> DateOf(1), persons |-> <<"Alice">>,
       places |-> <<<<"CityA">>>>, organizations |-> <<"OrgY">>]>>

\* the data sets with the given fields; the i-th report carries the i-th id
DataSets(FieldSeqs) ==
    {[i \in DOMAIN fs |->
        [id |-> ReportIds[i],
         date |-> fs[i].date,
         persons |-> fs[i].persons,
         places |-> fs[i].places,
         organizations |-> fs[i].organizations]] : fs \in FieldSeqs}

EmptyData == ProcessedData(<<>>, "UTC")

NoFilters == [entity |-> null, location |-> null, timeRange |-> <<>>]

NoEvent == [kind |-> "none", arg |-> null, selection |-> <<>>]

\* the module state of dashboard.js before DOMContentLoaded, for a given text
\* and the reports it parses to
InitState(text, data) ==
    /\ rawText = text
    /\ dataset = data
    /\ response = "pending"
    /\ allReports = <<>>
    /\ allEntities = EmptyData.allEntities
    /\ vizData = EmptyData.vizData
    /\ currentFilters = NoFilters
    /\ reportList = <<>>
    /\ networkLoadingEl = "Loading"
    /\ nodeOpacity = <<>>
    /\ linkOpacity = <<>>
    /\ barOpacity = <<>>
    /\ brushSelection = <<>>
    /\ lastError = "none"
    /\ lastEvent = NoEvent
    /\ pipelineRuns = 0

\* the same for a data set given by its parsed reports; the text is left out
InitWith(data) == InitState(<<>>, data)

----------------------------------------------------------------------------
(* Dashboard specification: initializeDashboard and the selection handlers. *)

FailureMessage == "Failed to load data. Please check dataset.txt and refresh."

Init ==
    /\ \E data \in DataSets(SeqsUpTo(DashFields, MaxReports) \cup {ScenarioFields}) :
          InitWith(data)
    /\ pc = "loading"

\* initializeDashboard when fetch resolves. getProcessedData reads the body
\* whatever response.ok is; the views are drawn (the bars carry no inline
\* opacity yet) and updateDashboard shows all reports.
FetchResolves(ok, zone) ==
    /\ pc = "loading"
    /\ response' = IF ok THEN "ok" ELSE "notok"
    /\ LET data == ProcessedData(dataset, zone)
       IN  /\ allReports' = data.allReports
           /\ allEntities' = data.allEntities
           /\ vizData' = data.vizData
    /\ pipelineRuns' = pipelineRuns + 1
    /\ updateDashboard(currentFilters, StyleAll(Bars(vizData'), ""))
    /\ networkLoadingEl' = "hidden"
    /\ pc' = "ready"
    /\ UNCHANGED <<rawText, dataset, currentFilters, brushSelection, lastError, lastEvent>>

\* initializeDashboard when fetch (or response.text()) rejects: the catch block
FetchRejects ==
    /\ pc = "loading"
    /\ response' = "rejected"
    /\ networkLoadingEl' = FailureMessage
    /\ pc' = "failed"
    /\ UNCHANGED <<rawText, dataset, allReports, allEntities, vizData, currentFilters, reportList,
                   nodeOpacity, linkOpacity, barOpacity, brushSelection, lastError,
                   lastEvent, pipelineRuns>>

\* onNodeClick on the n-th node. When the click deselects, the style callback of
\* line 228 reads the undeclared name neighbors: a ReferenceError on the first
\* node group, before any opacity is set and before updateDashboard is reached.
OnNodeClick(n) ==
    /\ pc = "ready"
    /\ n \in DOMAIN vizData.network.nodes
    /\ LET id == vizData.network.nodes[n].id
           filters == NodeClickFilters(currentFilters, id)
       IN  /\ currentFilters' = filters
           /\ brushSelection' = <<>>
           /\ lastEvent' = [kind |-> "node", arg |-> id, selection |-> <<>>]
           /\ UNCHANGED <<rawText, dataset, response, pc, allReports, allEntities, vizData,
                          networkLoadingEl, pipelineRuns>>
           /\ IF filters.entity # null
              THEN /\ updateDashboard(filters, StyleAll(Bars(vizData), "1"))
                   /\ lastError' = "none"
              ELSE /\ barOpacity' = StyleAll(Bars(vizData), "1")
                   /\ UNCHANGED <<nodeOpacity, linkOpacity, reportList>>
                   /\ lastError' = "ReferenceError"

\* the click listener drawReportList puts on a highlighted mention. The
\* descriptions are free text: a card on display may mention any entity of the
\* catalog; data-entity-id is the alias-resolved match.
OnMentionClick(match) ==
    /\ pc = "ready"
    /\ reportList # <<>>
    /\ match \in Range(allEntities.persons) \cup Range(allEntities.organizations)
    /\ LET entityId == Resolve(match)
           filters == MentionClickFilters(currentFilters, entityId)
       IN  /\ currentFilters' = filters
           /\ brushSelection' = <<>>
           /\ lastEvent' = [kind |-> "mention", arg |-> entityId, selection |-> <<>>]
           /\ UNCHANGED <<rawText, dataset, response, pc, allReports, allEntities, vizData,
                          networkLoadingEl, pipelineRuns>>
           /\ updateDashboard(filters, StyleAll(Bars(vizData), "1"))
           /\ lastError' = "none"

\* onLocationClick on the b-th bar
OnLocationClick(b) ==
    /\ pc = "ready"
    /\ b \in DOMAIN Bars(vizData)
    /\ LET location == Bars(vizData)[b].location
           filters == LocationClickFilters(currentFilters, location)
       IN  /\ currentFilters' = filters
           /\ brushSelection' = <<>>
           /\ lastEvent' = [kind |-> "location", arg |-> location, selection |-> <<>>]
           /\ UNCHANGED <<rawText, dataset, response, pc, allReports, allEntities, vizData,
                          networkLoadingEl, pipelineRuns>>
           /\ updateDashboard(filters, StyleAll(Bars(vizData), "1"))
           /\ lastError' = "none"

\* onTimeBrush at the end of a brush gesture; selection is <<>> when the gesture
\* leaves no selection
OnTimeBrush(selection) ==
    /\ pc = "ready"
    /\ LET filters == TimeBrushFilters(currentFilters, selection, vizData.timelineData)
       IN  /\ currentFilters' = filters
           /\ brushSelection' = selection
           /\ lastEvent' = [kind |-> IF selection # <<>> THEN "brush" ELSE "clear",
                            arg |-> null, selection |-> selection]
           /\ UNCHANGED <<rawText, dataset, response, pc, allReports, allEntities, vizData,
                          networkLoadingEl, pipelineRuns>>
           /\ updateDashboard(filters, StyleAll(Bars(vizData), "1"))
           /\ lastError' = "none"

Next ==
    \/ \E ok \in BOOLEAN, zone \in TimeZones : FetchResolves(ok, zone)
    \/ FetchRejects
    \/ \E n \in DOMAIN vizData.network.nodes : OnNodeClick(n)
    \/ \E match \in Range(allEntities.persons) \cup Range(allEntities.organizations) :
          OnMentionClick(match)
    \/ \E b \in DOMAIN Bars(vizData) : OnLocationClick(b)
    \/ \E selection \in BrushSelections \cup {<<>>} : OnTimeBrush(selection)

Spec == Init /\ [][Next]_vars

----------------------------------------------------------------------------
(* Claims about the selection state and the report list (specification Spec). *)

\* C1: in every reachable state at most one of currentFilters.entity,
\* currentFilters.location and currentFilters.timeRange is set.
C1_MutualExclusivity ==
    Cardinality({d \in {"entity", "location", "timeRange"} :
                    \/ d = "entity" /\ currentFilters.entity # null
                    \/ d = "location" /\ currentFilters.location # null
                    \/ d = "timeRange" /\ currentFilters.timeRange # <<>>}) <= 1

\* a location click has set a location, cleared the brush and narrowed the list
C1_Witness ==
    /\ lastEvent.kind = "location"
    /\ currentFilters.location # null
    /\ brushSelection = <<>>
    /\ Len(reportList) < Len(allReports)

\* C2: once the load has succeeded, after every event the report list on
\* display is the recomputation for the current filters (the full list, in
\* order, when no filter is set).
C2_ViewSynchronised ==
    (pc = "ready" /\ response = "ok") =>
        /\ reportList = filteredReports(currentFilters, allReports)
        /\ currentFilters = NoFilters => reportList = [i \in 1..Len(allReports) |-> i]

\* C3: no selection handler ends with an error, and an entity event naming an
\* entity of no report leaves an empty list (stated for the sessions whose
\* load succeeded).
C3_HandlersNeverFail ==
    response = "ok" =>
    /\ lastError = "none"
    /\ \A e \in {currentFilters.entity} \ {null} :
          (\A i \in DOMAIN allReports :
              /\ ~Includes(allReports[i].persons_resolved, e)
              /\ ~Includes(allReports[i].organizations, e))
          => reportList = <<>>

\* C4: an entity-selection event for E (node click or mention click) clears
\* all filters when the entity was E, and otherwise sets entity = E and
\* clears location and timeRange; so E twice in a row ends with no filter
\* (stated for the sessions whose load succeeded).
C4_EntityToggle ==
    [][(response' = "ok" /\ lastEvent'.kind \in {"node", "mention"}) =>
          currentFilters' = IF currentFilters.entity = lastEvent'.arg
                            THEN NoFilters
                            ELSE [entity |-> lastEvent'.arg, location |-> null,
                                  timeRange |-> <<>>]]_vars

\* C5: with timeRange = [a, b] set, the list holds exactly the reports dated
\* within [a, b], in order, and no report without a date.
C5_TimeRangeFilter ==
    (/\ pc = "ready"
     /\ response = "ok"
     /\ currentFilters.timeRange # <<>>
     /\ \A k \in DOMAIN currentFilters.timeRange : currentFilters.timeRange[k].kind = "date")
    =>
    /\ \A k \in DOMAIN reportList : \A l \in DOMAIN reportList : k < l => reportList[k] < reportList[l]
    /\ Range(reportList) =
          {i \in DOMAIN allReports :
              /\ allReports[i].date.kind = "date"
              /\ currentFilters.timeRange[1].t <= allReports[i].date.t
              /\ allReports[i].date.t <= currentFilters.timeRange[2].t}

\* C6: with entity = E set, the list is the sub-sequence of the reports whose
\* personsResolved or organizations contains E, a report naming only an alias
\* of E included; with location = L set, it is the sub-sequence of the reports
\* whose placesClean contains L.
C6_EntityLocationFilter ==
    pc = "ready" =>
        /\ \A k \in DOMAIN reportList : \A l \in DOMAIN reportList :
              k < l => reportList[k] < reportList[l]
        /\ currentFilters.entity # null =>
              /\ Range(reportList) =
                    {i \in DOMAIN allReports :
                        currentFilters.entity \in Range(allReports[i].persons_resolved)
                                                  \cup Range(allReports[i].organizations)}
              /\ \A i \in DOMAIN dataset :
                    (\E p \in Range(dataset[i].persons) :
                        p \in DOMAIN ALIAS_MAP /\ ALIAS_MAP[p] = currentFilters.entity)
                    => i \in Range(reportList)
        /\ currentFilters.location # null =>
              Range(reportList) =
                 {i \in DOMAIN allReports :
                     currentFilters.location \in Range(allReports[i].places_clean)}

\* the canonical person is selected and the list holds a report that names
\* only the alias and leaves out another report
C6_Witness ==
    /\ pc = "ready"
    /\ currentFilters.entity = "Boris Bugarov"
    /\ \E i \in Range(reportList) :
          allReports[i].persons = <<"Boris">> /\ allReports[i].organizations = <<>>
    /\ Len(reportList) < Len(allReports)

\* C10: a failed load (fetch rejected, or resolved with a non-success
\* response) ends in the error display with no pipeline run, no view drawn
\* and no selection state change afterwards; a successful load runs the
\* pipeline exactly once.
C10_LoadFailureTerminal ==
    /\ response \in {"notok", "rejected"} =>
          /\ pc = "failed"
          /\ networkLoadingEl = FailureMessage
          /\ pipelineRuns = 0
          /\ allReports = <<>> /\ reportList = <<>>
          /\ nodeOpacity = <<>> /\ linkOpacity = <<>> /\ barOpacity = <<>>
          /\ currentFilters = NoFilters /\ lastEvent = NoEvent
    /\ response = "ok" => pipelineRuns = 1

----------------------------------------------------------------------------
(* Graph specification: the entity catalog and the graph builder applied to *)
(* bounded report lists.                                                     *)

InitGraph ==
    /\ \E data \in DataSets(GraphFieldSeqs(MaxGraphReports, MaxMentions)) : InitWith(data)
    /\ pc = "input"

\* getAllEntities and generateNetworkData, as getProcessedData calls them
BuildNetwork(zone) ==
    /\ pc = "input"
    /\ LET data == ProcessedData(dataset, zone)
       IN  /\ allReports' = data.allReports
           /\ allEntities' = data.allEntities
           /\ vizData' = data.vizData
    /\ pc' = "built"
    /\ pipelineRuns' = pipelineRuns + 1
    /\ UNCHANGED <<rawText, dataset, response, currentFilters, reportList, networkLoadingEl,
                   nodeOpacity, linkOpacity, barOpacity, brushSelection, lastError,
                   lastEvent>>

NextGraph == \E zone \in TimeZones : BuildNetwork(zone)

SpecGraph == InitGraph /\ [][NextGraph]_vars

----------------------------------------------------------------------------
(* Claims about the graph builder (specification SpecGraph). *)

\* C7: the links hold no two edges with the same unordered pair of endpoints
\* and no edge from a name to itself.
C7_GraphDedup ==
    pc = "built" =>
        LET links == vizData.network.links
        IN  /\ \A i \in DOMAIN links : links[i].source # links[i].target
            /\ \A i \in DOMAIN links : \A j \in DOMAIN links :
                  i # j => {links[i].source, links[i].target}
                           # {links[j].source, links[j].target}

\* the graph was built from reports where two different raw persons collapse
\* to one canonical name and where a pair is visited in both orders
C7_Witness ==
    /\ pc = "built"
    /\ vizData.network.links # <<>>
    /\ \E i \in DOMAIN allReports : \E k \in DOMAIN allReports[i].persons :
          \E l \in DOMAIN allReports[i].persons :
             /\ allReports[i].persons[k] # allReports[i].persons[l]
             /\ allReports[i].persons_resolved[k] = allReports[i].persons_resolved[l]
    /\ \E i \in DOMAIN allReports : \E j \in DOMAIN allReports :
          \E p \in Range(ReportPairs(allReports[i])) : \E q \in Range(ReportPairs(allReports[j])) :
             p.source # p.target /\ p.source = q.target /\ p.target = q.source

\* C8: every two distinct names of one report's entity list are joined by an
\* edge, and every edge carries the id of a report naming both its endpoints.
C8_EdgeComplete ==
    pc = "built" =>
        LET links == vizData.network.links
            entitiesIn(r) == Range(r.persons_resolved) \cup Range(r.organizations)
        IN  /\ \A i \in DOMAIN allReports :
                  \A x \in entitiesIn(allReports[i]) : \A y \in entitiesIn(allReports[i]) :
                     x # y => \E l \in DOMAIN links :
                                 {links[l].source, links[l].target} = {x, y}
            /\ \A l \in DOMAIN links : \E i \in DOMAIN allReports :
                  /\ allReports[i].id = links[l].reportId
                  /\ {links[l].source, links[l].target} \subseteq entitiesIn(allReports[i])

\* C9: the nodes are the distinct entity names of the reports, one node each.
C9_NodeDistinct ==
    pc = "built" =>
        LET nodes == vizData.network.nodes
        IN  /\ \A m \in DOMAIN nodes : \A n \in DOMAIN nodes :
                  m # n => nodes[m].id # nodes[n].id
            /\ {nodes[n].id : n \in DOMAIN nodes} =
                  UNION {Range(allReports[i].persons_resolved)
                         \cup Range(allReports[i].organizations) : i \in DOMAIN allReports}

----------------------------------------------------------------------------
(* Parser specification: parseRawData applied to bounded texts.             *)

\* the lines of the texts: the separator, ID lines, a line that continues the
\* field before it, REPORTDATE lines with a blank day, a full date, a blank
\* month and day and no value, and a PERSONS line
ParserLines ==
    { Keyword,
      <<"I", "D", ":", " ", "A", "1">>,
      <<"I", "D", ":", " ", " ", "A", "2", " ">>,
      <<"x">>,
      Keyword \o <<"D", "A", "T", "E", ":", " ", "2", "/", " ", "/", "1", "9", "7", "0">>,
      Keyword \o <<"D", "A", "T", "E", ":", " ", "2", "/", "1", "/", "1", "9", "7", "0">>,
      Keyword \o <<"D", "A", "T", "E", ":", " ", " ", "/", " ", "/", "1", "9", "7", "1">>,
      Keyword \o <<"D", "A", "T", "E", ":">>,
      <<"P", "E", "R", "S", "O", "N", "S", ":", " ", "a", ";", " ", ";", "b">> }

\* the ends of line a text file may use
LineEnds == {<<LF>>, <<CR, LF>>}

\* the texts of at most n lines separated by the text's end of line, the last
\* line ended or not
Texts(n) ==
    {join(c[1], c[2]) \o (IF c[3] THEN c[2] ELSE <<>>) :
        c \in SeqsUpTo(ParserLines, n) \X LineEnds \X BOOLEAN}

InitParse ==
    /\ \E text \in Texts(MaxLines) : InitState(text, <<>>)
    /\ pc = "text"

\* parseRawData on the text, in a browser with the given Date parser
ParseRawData(engine) ==
    /\ pc = "text"
    /\ dataset' = parseRawData(rawText, engine)
    /\ pc' = "parsed"
    /\ UNCHANGED <<rawText, response, allReports, allEntities, vizData, currentFilters,
                   reportList, networkLoadingEl, nodeOpacity, linkOpacity, barOpacity,
                   brushSelection, lastError, lastEvent, pipelineRuns>>

NextParse == \E engine \in DateEngines : ParseRawData(engine)

SpecParse == InitParse /\ [][NextParse]_vars

----------------------------------------------------------------------------
(* Claims about the parser (specification SpecParse). *)

\* a line without the carriage return of its end of line
Chomp(line) ==
    IF line # <<>> /\ line[Len(line)] = CR THEN SubSeq(line, 1, Len(line) - 1) ELSE line

RECURSIVE GroupBlocks(_, _, _)
\* the runs of lines between the lines that hold the separator keyword alone
\* (the lines before the first keyword line are taken for a block as well)
GroupBlocks(lines, blocks, current) ==
    IF lines = <<>> THEN Append(blocks, current)
    ELSE IF Chomp(Head(lines)) = Keyword
    THEN GroupBlocks(Tail(lines), Append(blocks, current), <<>>)
    ELSE GroupBlocks(Tail(lines), blocks, Append(current, Head(lines)))

\* the trimmed ID field of each block that has a non-empty one, in text order
BlockIds(text) ==
    LET blocks == GroupBlocks(split(text, <<LF>>), <<>>, <<>>)
        ids == [b \in DOMAIN blocks |->
                   field(parseLines(blocks[b], <<>>, <<>>, <<>>), <<"i", "d">>)]
    IN  SelectSeq(ids, LAMBDA id : id # <<>>)

\* C11: the parser yields, in text order, one report per block with a
\* non-empty ID field, its id the trimmed value of that field, and none for a
\* block without one; no report has an empty id.
C11_ParserBlocks ==
    pc = "parsed" =>
        /\ [i \in DOMAIN dataset |-> dataset[i].id] = BlockIds(rawText)
        /\ \A i \in DOMAIN dataset : dataset[i].id # <<>>

----------------------------------------------------------------------------
(* Aggregation specification: alias resolution, place cleaning and the      *)
(* location and timeline aggregates applied to bounded report lists.        *)

InitAggregate ==
    /\ \E data \in DataSets(AggFieldSeqs(MaxAggReports, MaxSegments)) : InitWith(data)
    /\ pc = "input"

SpecAggregate == InitAggregate /\ [][NextGraph]_vars

----------------------------------------------------------------------------
(* Claims about the normalizers and aggregators (specification SpecAggregate). *)

\* the alias resolution as stated: the table entry of a key of the alias
\* table, the name itself otherwise
AliasOf(P) == IF P \in DOMAIN ALIAS_MAP THEN ALIAS_MAP[P] ELSE P

\* C12: personsResolved has the length and order of persons, its i-th entry
\* the alias resolution of persons[i]; resolving twice is resolving once; the
\* organizations are not resolved.
C12_AliasResolution ==
    pc = "built" =>
        /\ \A i \in DOMAIN allReports :
              /\ Len(allReports[i].persons_resolved) = Len(dataset[i].persons)
              /\ \A k \in DOMAIN dataset[i].persons :
                    allReports[i].persons_resolved[k] = AliasOf(dataset[i].persons[k])
              /\ allReports[i].organizations = dataset[i].organizations
        /\ \A P \in DOMAIN ALIAS_MAP \cup UNION {Range(dataset[i].persons) : i \in DOMAIN dataset} :
              /\ Resolve(Resolve(P)) = Resolve(P)
              /\ AliasOf(AliasOf(P)) = AliasOf(P)

\* the segments of a place that survive: trimmed, the empty ones dropped
Surviving(place) == SelectSeq([k \in DOMAIN place |-> Trim(place[k])], LAMBDA x : x # "")

\* C13: the cleaned location of a place is Unknown when no segment survives
\* the trimming, the first surviving segment when one or two do, and the
\* third-from-last when three or more do (the first of three, the second of
\* four).
C13_PlaceNormalization ==
    pc = "built" =>
        \A i \in DOMAIN allReports :
            /\ Len(allReports[i].places_clean) = Len(dataset[i].places)
            /\ \A k \in DOMAIN dataset[i].places :
                  LET surviving == Surviving(dataset[i].places[k])
                      n == Len(surviving)
                      clean == allReports[i].places_clean[k]
                  IN  /\ n = 0 => clean = "Unknown"
                      /\ n \in {1, 2} => clean = surviving[1]
                      /\ n >= 3 => clean = surviving[n - 2]
                      /\ n = 3 => clean = surviving[1]
                      /\ n = 4 => clean = surviving[2]

\* a place of four surviving segments, one of them padded, was cleaned to its
\* second segment
C13_Witness ==
    /\ pc = "built"
    /\ \E i \in DOMAIN allReports : \E k \in DOMAIN dataset[i].places :
          /\ Len(dataset[i].places[k]) = 4
          /\ Len(Surviving(dataset[i].places[k])) = 4
          /\ dataset[i].places[k][2] = " District1 "
          /\ allReports[i].places_clean[k] = "District1"

RECURSIVE SumCounts(_)
\* the sum of the counts of the entries of an aggregate
SumCounts(s) == IF s = <<>> THEN 0 ELSE Head(s).count + SumCounts(Tail(s))

\* C14: locationCounts has one entry per distinct value of placesClean other
\* than Unknown, counting its occurrences over all reports; timelineData has
\* one entry per year-month holding a dated report, counting the reports of
\* that month; the counts sum to the occurrences and to the dated reports, and
\* none is below 1.
C14_AggregationTotals ==
    pc = "built" =>
        LET lc == vizData.locationCounts
            tl == vizData.timelineData
            occ == {p \in (DOMAIN allReports) \X (1..4) :
                       /\ p[2] \in DOMAIN allReports[p[1]].places_clean
                       /\ allReports[p[1]].places_clean[p[2]] # "Unknown"}
            clean(p) == allReports[p[1]].places_clean[p[2]]
            dated == {i \in DOMAIN allReports : allReports[i].date.kind = "date"}
            month(i) == allReports[i].date.t \div DaysPerMonth
            months == {month(i) : i \in dated}
            rank(m) == Cardinality({n \in months : n < m}) + 1
        IN  /\ \A e \in DOMAIN lc : \A f \in DOMAIN lc : e # f => lc[e].location # lc[f].location
            /\ {lc[e].location : e \in DOMAIN lc} = {clean(p) : p \in occ}
            /\ \A e \in DOMAIN lc :
                  lc[e].count = Cardinality({p \in occ : clean(p) = lc[e].location})
            /\ SumCounts(lc) = Cardinality(occ)
            /\ Len(tl) = Cardinality(months)
            /\ \A m \in months :
                  rank(m) \in DOMAIN tl =>
                     tl[rank(m)].count = Cardinality({i \in dated : month(i) = m})
            /\ SumCounts(tl) = Cardinality(dated)
            /\ \A e \in DOMAIN lc : lc[e].count >= 1
            /\ \A e \in DOMAIN tl : tl[e].count >= 1

\* C15: locationCounts is in order of non-increasing count, locations of equal
\* count in the order of their first appearance in the scan of the reports;
\* timelineData is in order of strictly increasing date.
C15_AggregateOrdering ==
    pc = "built" =>
        LET lc == vizData.locationCounts
            tl == vizData.timelineData
            scan == Flatten([i \in DOMAIN allReports |-> allReports[i].places_clean])
            first(l) == CHOOSE k \in DOMAIN scan :
                           scan[k] = l /\ \A j \in DOMAIN scan : scan[j] = l => k <= j
        IN  /\ \A e \in DOMAIN lc : \A f \in DOMAIN lc :
                  e < f => /\ lc[e].count >= lc[f].count
                           /\ lc[e].count = lc[f].count
                              => first(lc[e].location) < first(lc[f].location)
            /\ \A e \in DOMAIN tl : \A f \in DOMAIN tl : e < f => tl[e].date.t < tl[f].date.t

\* two locations of equal count stand in the order of their appearance, and
\* the timeline holds two months whose reports came in the opposite order
C15_Witness ==
    /\ pc = "built"
    /\ Len(vizData.locationCounts) = 2
    /\ vizData.locationCounts[1].count = vizData.locationCounts[2].count
    /\ vizData.locationCounts[1].location = "CityB"
    /\ Len(vizData.timelineData) = 2
    /\ Len(allReports) = 2
    /\ allReports[1].date.kind = "date" /\ allReports[2].date.kind = "date"
    /\ allReports[2].date.t < allReports[1].date.t

\* C16: a date string with a blank day, M/ /Y, gives the date of M/1/Y, one
\* with a blank month and day, / /Y, the date of 1/1/Y; an empty or absent
\* string and one that holds no number give no date; the date is a date or
\* absent, never anything else.
C16_DateRepair ==
    pc = "parsed" =>
        \A i \in DOMAIN dataset :
            LET s == dataset[i].reportdate
                parts == split(s, <<"/">>)
                blank(x) == trim(x) = <<>>
                number(x) == x # <<>> /\ \A k \in DOMAIN x : IsDigit(x[k])
                year == parseInt(parts[3], 0)
            IN  /\ dataset[i].date.kind \in {"null", "date"}
                /\ (/\ Len(parts) = 3
                    /\ number(parts[1]) /\ parseInt(parts[1], 0) \in 1..12
                    /\ blank(parts[2])
                    /\ number(parts[3]) /\ Len(parts[3]) = 4)
                   => dataset[i].date = DateOf(DayNumber(year, parseInt(parts[1], 0), 1))
                /\ (/\ Len(parts) = 3
                    /\ blank(parts[1])
                    /\ blank(parts[2])
                    /\ number(parts[3]) /\ Len(parts[3]) = 4)
                   => dataset[i].date = DateOf(DayNumber(year, 1, 1))
                /\ (\A k \in DOMAIN s : ~IsDigit(s[k])) => dataset[i].date = NullDate

----------------------------------------------------------------------------
(* Further claims about the dashboard (specification Spec). *)

\* C17: for the two reports of the scenario the pipeline yields the nodes
\* Alice (person), OrgX and OrgY (organization), the edges Alice-OrgX of A1 and
\* Alice-OrgY of A2 and no other, the location counts Region1 = 1 and
\* CityA = 1, and selecting Alice lists both reports.
C17_Scenario ==
    (pc = "ready" /\ dataset \in DataSets({ScenarioFields})) =>
        /\ vizData.network.nodes =
              <<[id |-> "Alice", type |-> "person"],
                [id |-> "OrgX", type |-> "organization"],
                [id |-> "OrgY", type |-> "organization"]>>
        /\ Len(vizData.network.links) = 2
        /\ {<<{l.source, l.target}, l.reportId>> : l \in Range(vizData.network.links)} =
              {<<{"Alice", "OrgX"}, "A1">>, <<{"Alice", "OrgY"}, "A2">>}
        /\ Range(vizData.locationCounts) =
              {[location |-> "Region1", count |-> 1], [location |-> "CityA", count |-> 1]}
        /\ Len(vizData.locationCounts) = 2
        /\ currentFilters.entity = "Alice" => reportList = <<1, 2>>

\* the scenario is loaded and a click on the node Alice has listed both reports
C17_Witness ==
    /\ pc = "ready"
    /\ dataset \in DataSets({ScenarioFields})
    /\ lastEvent.kind = "node" /\ lastEvent.arg = "Alice"
    /\ currentFilters.entity = "Alice"
    /\ reportList = <<1, 2>>

\* C18: a location-selection event for L sets location = none when the
\* location was L and location = L otherwise, and in both cases leaves
\* entity = none and timeRange = none; so a second event for L right after one
\* that selected L ends with no filter at all.
C18_LocationTransition ==
    [][(lastEvent'.kind = "location") =>
          /\ currentFilters' = [entity |-> null,
                                location |-> IF currentFilters.location = lastEvent'.arg
                                             THEN null ELSE lastEvent'.arg,
                                timeRange |-> <<>>]
          /\ brushSelection' = <<>>
          /\ (lastEvent.kind = "location" /\ lastEvent.arg = lastEvent'.arg
              /\ currentFilters.location = lastEvent'.arg)
             => currentFilters' = NoFilters]_vars

\* a bar was clicked while it was the selected one: the second of two clicks in
\* a row, on a dashboard that shows more than one bar
C18_Witness ==
    /\ pc = "ready"
    /\ lastEvent.kind = "location"
    /\ currentFilters = NoFilters
    /\ Len(Bars(vizData)) >= 2
    /\ \A b \in DOMAIN barOpacity : barOpacity[b] = "1"

\* C19: a brush event with a selection leaves timeRange = the two dates of the
\* selection, entity = none and location = none; a brush event without a
\* selection leaves all three none; and the brush reset inside the entity and
\* location handlers is no time-range event: the handler's own entity or
\* location survives it, with no range and no brush selection left.
C19_TimeRangeTransition ==
    [][/\ (lastEvent'.kind = "brush") =>
             /\ lastEvent'.selection \in BrushSelections
             /\ currentFilters' =
                   [entity |-> null, location |-> null,
                    timeRange |-> <<Invert(vizData.timelineData, lastEvent'.selection[1]),
                                    Invert(vizData.timelineData, lastEvent'.selection[2])>>]
       /\ (lastEvent'.kind = "clear") => currentFilters' = NoFilters
       /\ (lastEvent'.kind \in {"node", "mention", "location"}) =>
             /\ currentFilters'.timeRange = <<>>
             /\ brushSelection' = <<>>
             /\ (lastEvent'.kind = "mention") => currentFilters'.entity = lastEvent'.arg
             /\ (lastEvent'.kind = "node" /\ currentFilters.entity # lastEvent'.arg)
                   => currentFilters'.entity = lastEvent'.arg
             /\ (lastEvent'.kind = "location" /\ currentFilters.location # lastEvent'.arg)
                   => currentFilters'.location = lastEvent'.arg]_vars

\* a brush gesture ended with a selection over a timeline of several months:
\* the range is set to two different dates
C19_Witness ==
    /\ pc = "ready"
    /\ lastEvent.kind = "brush"
    /\ brushSelection # <<>>
    /\ Len(currentFilters.timeRange) = 2
    /\ currentFilters.timeRange[1].kind = "date"
    /\ currentFilters.timeRange[1] # currentFilters.timeRange[2]
    /\ currentFilters.entity = null
    /\ currentFilters.location = null

\* C20: whenever an entity E is the active filter, the nodes at full opacity
\* are exactly the nodes named E or joined to E by a link of the graph, the
\* links at full opacity are exactly the links with E at one end, and every
\* other node and link is at the reduced opacity 0.1.
C20_NeighborHighlight ==
    (pc = "ready" /\ currentFilters.entity # null) =>
        LET E == currentFilters.entity
            nodes == vizData.network.nodes
            links == vizData.network.links
            Joined(id) == \E l \in DOMAIN links :
                             \/ links[l].source = E /\ links[l].target = id
                             \/ links[l].target = E /\ links[l].source = id
        IN  /\ DOMAIN nodeOpacity = DOMAIN nodes
            /\ DOMAIN linkOpacity = DOMAIN links
            /\ \A n \in DOMAIN nodes :
                  nodeOpacity[n] = IF nodes[n].id = E \/ Joined(nodes[n].id) THEN "1" ELSE "0.1"
            /\ \A l \in DOMAIN links :
                  linkOpacity[l] = IF E \in {links[l].source, links[l].target} THEN "1" ELSE "0.1"

\* the selected entity is the target end of a link: its neighbor at the source
\* end is at full opacity, while another node and another link are reduced
C20_Witness ==
    /\ pc = "ready"
    /\ currentFilters.entity # null
    /\ \E l \in DOMAIN vizData.network.links :
          /\ vizData.network.links[l].target = currentFilters.entity
          /\ linkOpacity[l] = "1"
          /\ \E n \in DOMAIN vizData.network.nodes :
                /\ vizData.network.nodes[n].id = vizData.network.links[l].source
                /\ nodeOpacity[n] = "1"
    /\ \E n \in DOMAIN nodeOpacity : nodeOpacity[n] = "0.1"
    /\ \E l \in DOMAIN linkOpacity : linkOpacity[l] = "0.1"

\* C21: in every state reached after a selection event, with no entity
\* selected every network node is at opacity 1 and every link at its default
\* 0.6; with no location selected every location bar is at opacity 1; with a
\* location L selected exactly the bars of L are at opacity 1 (stated for the
\* sessions whose load succeeded).
C21_EmphasisReset ==
    (pc = "ready" /\ response = "ok" /\ lastEvent.kind # "none") =>
        /\ currentFilters.entity = null =>
              /\ \A n \in DOMAIN nodeOpacity : nodeOpacity[n] = "1"
              /\ \A l \in DOMAIN linkOpacity : linkOpacity[l] = "0.6"
        /\ currentFilters.location = null =>
              \A b \in DOMAIN barOpacity : barOpacity[b] = "1"
        /\ currentFilters.location # null =>
              \A b \in DOMAIN barOpacity :
                 barOpacity[b] = "1" <=> Bars(vizData)[b].location = currentFilters.location

----------------------------------------------------------------------------
(* A claim about what the built aggregates offer for selection              *)
(* (specification SpecAggregate).                                           *)

\* C22: for every report list, the filters a click on any node of the built
\* graph sets leave at least one report in the filtered list, and the filters
\* a click on the location of any locationCounts entry sets leave at least one
\* report and at most as many as the count of the entry.
C22_SelectableNotEmpty ==
    pc = "built" =>
        /\ \A n \in DOMAIN vizData.network.nodes :
              Len(filteredReports(NodeClickFilters(NoFilters, vizData.network.nodes[n].id),
                                  allReports)) >= 1
        /\ \A e \in DOMAIN vizData.locationCounts :
              LET list == filteredReports(
                              LocationClickFilters(NoFilters, vizData.locationCounts[e].location),
                              allReports)
              IN  Len(list) >= 1 /\ Len(list) <= vizData.locationCounts[e].count

\* the graph has the node of an organization that no report names as a person,
\* and a location is counted more often than there are reports that hold it
C22_Witness ==
    /\ pc = "built"
    /\ \E n \in DOMAIN vizData.network.nodes :
          /\ vizData.network.nodes[n].type = "organization"
          /\ \A i \in DOMAIN allReports :
                ~Includes(allReports[i].persons_resolved, vizData.network.nodes[n].id)
    /\ \E e \in DOMAIN vizData.locationCounts :
          Len(filteredReports(LocationClickFilters(NoFilters, vizData.locationCounts[e].location),
                              allReports)) < vizData.locationCounts[e].count

====
